---- MODULE Spec2Model ----
(***************************************************************************)
(* Model of the Stable Diffusion backend service (src/backend/run.py).      *)
(*                                                                         *)
(* The service is a Flask application whose request handlers run on        *)
(* concurrent request threads and share the module globals pipe,           *)
(* current_model, current_model_path and MODEL_DIR, the model directories  *)
(* on disk and the scratch file output.png.  Every handler is cut into      *)
(* steps at the statements that read or write this shared state; a step    *)
(* is one action, and steps of different threads interleave freely         *)
(* because the code takes no lock.                                         *)
(***************************************************************************)
EXTENDS Integers, FiniteSets, Sequences, TLC

\* ------------------------------------------------------------------ bounds
\* Number of requests the clients issue in one run.
MaxRequests == 3

\* ------------------------------------------------------------ value domains
\* Python's None (also: a JSON field that is missing from the request body).
None == "none"

\* The request threads: two requests can be inside their handlers together.
Threads == {1, 2}

\* Directories that exist or can be created, and one that os.makedirs cannot
\* create.  StartDir is the value MODEL_DIR gets at import time.
StartDir == "A"
Dirs == {"A", "B"}
Uncreatable == {"X"}

\* File names the clients use.
Names == {"a.safetensors", "m.bin"}
\* Display label a client may pass to /load_from_path as "name".
Labels == {"label"}
\* The names that match the glob pattern "*.safetensors".
SafetensorsNames == {n \in Names : n = "a.safetensors"}

NoPath == [dir |-> None, name |-> None]
Paths == [dir : Dirs, name : Names]

\* What a file holds: the complete artifact, a truncated prefix of a download,
\* or the body of a non-success HTTP answer.  Absent: no such file.
Absent == "absent"
Contents == {"full", "partial", "errpage"}

\* A directory a /download request may name explicitly.
ExplicitDirs == {"B"}

Prompts == {"", "cat", "dog"}
Urls == {"http://x/m"}

NoImage == [model |-> NoPath, prompt |-> None]

\* Locals of the handler a thread is running.
Loc0 == [op |-> None, name |-> None, path |-> NoPath, dir |-> None, custom |-> None,
         remote |-> None, prompt |-> None, image |-> NoImage]

\* The last HTTP response a client received on a thread.
Resp0 == [status |-> 0, kind |-> None, model |-> None, path |-> NoPath,
          dir |-> None, models |-> {}, image |-> NoImage]

VARIABLES
    MODEL_DIR,           \* global MODEL_DIR
    dirs,                \* directories that exist on disk
    files,               \* Paths -> Contents \cup {Absent}
    pipe,                \* global pipe: the path the held pipeline was built from, or NoPath
    current_model,       \* global current_model
    current_model_path,  \* global current_model_path
    output,              \* content of the scratch file output.png
    pc,                  \* per thread: the step its handler is at, "idle" between requests
    loc,                 \* per thread: the handler's locals
    resp,                \* per thread: the last response sent
    nreq,                \* requests issued so far
    transfers            \* HTTP GETs issued by download_model so far

vars == <<MODEL_DIR, dirs, files, pipe, current_model, current_model_path,
          output, pc, loc, resp, nreq, transfers>>

globals == <<MODEL_DIR, dirs, files, pipe, current_model, current_model_path,
             output, transfers>>

\* ----------------------------------------------------------------- helpers
\* os.path.join(directory, filename) for a plain file name.
Join(d, n) == [dir |-> d, name |-> n]

\* os.path.basename(path)
Basename(p) == p.name

\* os.path.exists(path)
Exists(p) == p \in Paths /\ p.dir \in dirs /\ files[p] # Absent

\* Variant of list_models() that globs the start-up directory instead of the
\* current MODEL_DIR.
list_models_of_start_dir == {n \in SafetensorsNames : Exists(Join(StartDir, n))}

\* list_models(): basenames of MODEL_DIR/*.safetensors
list_models == {n \in SafetensorsNames : Exists(Join(MODEL_DIR, n))}

\* Outcomes of StableDiffusionPipeline.from_single_file(path).to("cuda"):
\* TRUE a pipeline is returned, FALSE an exception is raised.  Only a complete
\* artifact can load, and even that load can fail (device memory).
EngineOutcomes(content) == IF content = "full" THEN {TRUE, FALSE} ELSE {FALSE}

\* Outcomes of requests.get(url, stream=True): the connection fails, or an
\* answer arrives with a success or a non-success status.
GetOutcomes == {"neterr", "ok", "bad_status"}

\* What the finished chunk loop has put in the file for an answer.
Written(remote) == IF remote = "ok" THEN "full" ELSE "errpage"

\* A handler returns response r on thread t.
Reply(t, r) ==
    /\ resp' = [resp EXCEPT ![t] = r]
    /\ pc' = [pc EXCEPT ![t] = "idle"]
    /\ loc' = [loc EXCEPT ![t] = Loc0]

Error(status, kind) == [Resp0 EXCEPT !.status = status, !.kind = kind]

\* A thread moves on to step s with locals l; the request it is handling has
\* no response yet.
Goto(t, s, l) ==
    /\ pc' = [pc EXCEPT ![t] = s]
    /\ loc' = [loc EXCEPT ![t] = l]
    /\ resp' = [resp EXCEPT ![t] = Resp0]

\* A request arrives on an idle thread.
Arrive(t) ==
    /\ pc[t] = "idle"
    /\ nreq < MaxRequests
    /\ nreq' = nreq + 1

\* The steps of load_model() past its existence check (lines 60-66): a thread
\* at one of them has a load in flight.
LoadSteps == {"load", "set_name", "set_path"}
Loading == \E t \in Threads : pc[t] \in LoadSteps

\* The lifecycle phase of the pipeline, read off the globals: loading while
\* a load is in flight, otherwise ready when a descriptor (current_model and
\* current_model_path) is recorded, otherwise unloaded.
Phase ==
    IF Loading THEN "loading"
    ELSE IF current_model # None /\ current_model_path # NoPath THEN "ready"
    ELSE "unloaded"

\* ---------------------------------------------------------------- initially
\* The model directory exists (os.makedirs at import) and may already hold
\* files from earlier runs; nothing is loaded.
Init ==
    /\ MODEL_DIR = StartDir
    /\ dirs = {StartDir}
    /\ files \in [Paths -> {"full", Absent}]
    /\ \A p \in Paths : p.dir # StartDir => files[p] = Absent
    /\ pipe = NoPath
    /\ current_model = None
    /\ current_model_path = NoPath
    /\ output = NoImage
    /\ pc = [t \in Threads |-> "idle"]
    /\ loc = [t \in Threads |-> Loc0]
    /\ resp = [t \in Threads |-> Resp0]
    /\ nreq = 0
    /\ transfers = 0

\* ------------------------------------------------- /select and load_model
\* select(), lines 122-125, and load_model() lines 49 and 56: the model name
\* is taken from the request and joined to MODEL_DIR.  A request without a
\* "model" field makes os.path.join raise TypeError, which select() answers
\* with 400.
Select(t, name) ==
    /\ Arrive(t)
    /\ IF name = None
       THEN Reply(t, Error(400, "type_error"))
       ELSE Goto(t, "sel_exists",
                 [Loc0 EXCEPT !.op = "select", !.name = name,
                              !.path = Join(MODEL_DIR, name)])
    /\ UNCHANGED globals

\* Variant of lines 57-58 without the existence check: every name goes on to
\* the engine.
SelectExistsUnchecked(t) ==
    /\ pc[t] = "sel_exists"
    /\ Goto(t, "load", loc[t])
    /\ UNCHANGED <<globals, nreq>>

\* load_model() lines 57-58: FileNotFoundError unless the joined path exists.
SelectExists(t) ==
    /\ pc[t] = "sel_exists"
    /\ IF Exists(loc[t].path)
       THEN Goto(t, "load", loc[t])
       ELSE Reply(t, Error(400, "model_not_found"))
    /\ UNCHANGED <<globals, nreq>>

\* ------------------------------------------------------- /load_from_path
\* load_from_path() lines 133-138: os.path.basename(model_path) is evaluated
\* before the check for a missing path, so a request without "path" raises
\* TypeError outside the try block and Flask answers 500.
LoadFromPath(t, path, label) ==
    /\ Arrive(t)
    /\ IF path = NoPath
       THEN Reply(t, Error(500, "type_error"))
       ELSE Goto(t, "lfp_exists",
                 [Loc0 EXCEPT !.op = "load_from_path", !.path = path,
                              !.name = IF label = None THEN Basename(path) ELSE label])
    /\ UNCHANGED globals

\* load_model() lines 49-53: FileNotFoundError unless the given path exists.
LoadFromPathExists(t) ==
    /\ pc[t] = "lfp_exists"
    /\ IF Exists(loc[t].path)
       THEN Goto(t, "load", loc[t])
       ELSE Reply(t, Error(400, "path_not_found"))
    /\ UNCHANGED <<globals, nreq>>

\* ----------------------------------------------------- load_model, lines 60-66
\* Lines 60-64: the engine builds a pipeline from the file and the result is
\* bound to the global pipe; an exception of the engine leaves every global
\* as it was and is answered with 400 by the calling handler.
Load(t) ==
    /\ pc[t] = "load"
    /\ \E ok \in EngineOutcomes(IF Exists(loc[t].path) THEN files[loc[t].path] ELSE Absent) :
          IF ok
          THEN /\ pipe' = loc[t].path
               /\ Goto(t, "set_name", loc[t])
          ELSE /\ pipe' = pipe
               /\ Reply(t, Error(400, "load_error"))
    /\ UNCHANGED <<MODEL_DIR, dirs, files, current_model, current_model_path,
                   output, transfers, nreq>>

\* Line 65: current_model = model_name
SetCurrentModel(t) ==
    /\ pc[t] = "set_name"
    /\ current_model' = loc[t].name
    /\ Goto(t, "set_path", loc[t])
    /\ UNCHANGED <<MODEL_DIR, dirs, files, pipe, current_model_path, output,
                   transfers, nreq>>

\* The answer of select(), line 126, and of load_from_path(), lines 142-146:
\* only the latter carries the path.
Loaded(t) ==
    [Resp0 EXCEPT !.status = 200, !.kind = "loaded", !.model = loc[t].name,
                  !.path = IF loc[t].op = "load_from_path" THEN loc[t].path ELSE NoPath]

\* Variant of line 66 that joins the name to MODEL_DIR again instead of
\* recording the path that was loaded.
SetCurrentModelPathRejoined(t) ==
    /\ pc[t] = "set_path"
    /\ current_model_path' = IF loc[t].op = "select"
                              THEN Join(MODEL_DIR, loc[t].name)
                              ELSE loc[t].path
    /\ Reply(t, Loaded(t))
    /\ UNCHANGED <<MODEL_DIR, dirs, files, pipe, current_model, output,
                   transfers, nreq>>

\* Line 66: current_model_path = full_model_path, and the handler's answer.
SetCurrentModelPath(t) ==
    /\ pc[t] = "set_path"
    /\ current_model_path' = loc[t].path
    /\ Reply(t, Loaded(t))
    /\ UNCHANGED <<MODEL_DIR, dirs, files, pipe, current_model, output,
                   transfers, nreq>>

\* ------------------------------------------------------------- GET /models
\* models(), lines 68-76.
Models(t) ==
    /\ Arrive(t)
    /\ Reply(t, [Resp0 EXCEPT !.status = 200, !.kind = "models",
                              !.models = list_models, !.model = current_model,
                              !.dir = MODEL_DIR, !.path = current_model_path])
    /\ UNCHANGED globals

\* ------------------------------------------------------- /set_model_dir
\* set_model_dir(), lines 82-86.
SetModelDir(t, d) ==
    /\ Arrive(t)
    /\ IF d = None
       THEN Reply(t, Error(400, "no_directory"))
       ELSE Goto(t, "sd_makedirs", [Loc0 EXCEPT !.op = "set_model_dir", !.dir = d])
    /\ UNCHANGED globals

\* Line 89: os.makedirs(new_dir, exist_ok=True).  Its OSError is not caught
\* by the handler, so Flask answers 500.
SetModelDirMakedirs(t) ==
    /\ pc[t] = "sd_makedirs"
    /\ IF loc[t].dir \in Uncreatable
       THEN /\ dirs' = dirs
            /\ Reply(t, Error(500, "os_error"))
       ELSE /\ dirs' = dirs \cup {loc[t].dir}
            /\ Goto(t, "sd_assign", loc[t])
    /\ UNCHANGED <<MODEL_DIR, files, pipe, current_model, current_model_path,
                   output, transfers, nreq>>

\* Variant of lines 90-96 that also drops the loaded model when the directory
\* changes.
SetModelDirAssignUnloading(t) ==
    /\ pc[t] = "sd_assign"
    /\ MODEL_DIR' = loc[t].dir
    /\ pipe' = NoPath
    /\ current_model' = None
    /\ current_model_path' = NoPath
    /\ Reply(t, [Resp0 EXCEPT !.status = 200, !.kind = "updated",
                              !.dir = loc[t].dir])
    /\ UNCHANGED <<dirs, files, output, transfers, nreq>>

\* Lines 90-96: MODEL_DIR = new_dir and the answer, which reads MODEL_DIR back.
SetModelDirAssign(t) ==
    /\ pc[t] = "sd_assign"
    /\ MODEL_DIR' = loc[t].dir
    /\ Reply(t, [Resp0 EXCEPT !.status = 200, !.kind = "updated",
                              !.dir = loc[t].dir])
    /\ UNCHANGED <<dirs, files, pipe, current_model, current_model_path,
                   output, transfers, nreq>>

\* ------------------------------------------------------------ /download
\* download(), lines 101-107, and download_model() lines 34-36: both fields
\* are required; the target is the request's directory, or MODEL_DIR when the
\* request names none.
Download(t, url, filename, custom_dir) ==
    /\ Arrive(t)
    /\ IF url = None \/ filename = None
       THEN Reply(t, Error(400, "missing_field"))
       ELSE LET model_dir == IF custom_dir = None THEN MODEL_DIR ELSE custom_dir
            IN  Goto(t, "dl_exists",
                     [Loc0 EXCEPT !.op = "download", !.name = filename,
                                  !.custom = custom_dir,
                                  !.dir = model_dir,
                                  !.path = Join(model_dir, filename)])
    /\ UNCHANGED globals

\* The answer of download(), lines 111-115: "directory" is custom_dir or the
\* MODEL_DIR of the moment the answer is built.
Downloaded(t) ==
    [Resp0 EXCEPT !.status = 200, !.kind = "downloaded", !.path = loc[t].path,
                  !.dir = IF loc[t].custom = None THEN MODEL_DIR ELSE loc[t].custom]

\* Variant of line 37 that fetches whether or not the file is there.
DownloadExistsAlwaysFetch(t) ==
    /\ pc[t] = "dl_exists"
    /\ Goto(t, "dl_get", loc[t])
    /\ UNCHANGED <<globals, nreq>>

\* download_model() line 37: a file that is already there is returned as is.
DownloadExists(t) ==
    /\ pc[t] = "dl_exists"
    /\ IF Exists(loc[t].path)
       THEN Reply(t, Downloaded(t))
       ELSE Goto(t, "dl_get", loc[t])
    /\ UNCHANGED <<globals, nreq>>

\* Line 39: r = requests.get(url, stream=True).  A connection error is an
\* exception, answered with 500 by download(); the status of an answer is
\* never looked at.
DownloadGet(t) ==
    /\ pc[t] = "dl_get"
    /\ transfers' = transfers + 1
    /\ \E r \in GetOutcomes :
          IF r = "neterr"
          THEN Reply(t, Error(500, "fetch_error"))
          ELSE Goto(t, "dl_open", [loc[t] EXCEPT !.remote = r])
    /\ UNCHANGED <<MODEL_DIR, dirs, files, pipe, current_model,
                   current_model_path, output, nreq>>

\* Line 40: open(local_path, 'wb') creates the file empty, or empties it; in
\* a directory that does not exist it raises FileNotFoundError.
DownloadOpen(t) ==
    /\ pc[t] = "dl_open"
    /\ IF loc[t].dir \in dirs
       THEN /\ files' = [files EXCEPT ![loc[t].path] = "partial"]
            /\ Goto(t, "dl_write", loc[t])
       ELSE /\ files' = files
            /\ Reply(t, Error(500, "fetch_error"))
    /\ UNCHANGED <<MODEL_DIR, dirs, pipe, current_model, current_model_path,
                   output, transfers, nreq>>

\* Lines 41-43: the chunk loop.  It either writes the whole body, or the
\* stream or the disk fails after some chunks and the exception leaves the
\* file as far as it was written.
DownloadWrite(t) ==
    /\ pc[t] = "dl_write"
    /\ \E complete \in BOOLEAN :
          IF complete
          THEN /\ files' = [files EXCEPT ![loc[t].path] = Written(loc[t].remote)]
               /\ Reply(t, Downloaded(t))
          ELSE /\ files' = [files EXCEPT ![loc[t].path] = "partial"]
               /\ Reply(t, Error(500, "fetch_error"))
    /\ UNCHANGED <<MODEL_DIR, dirs, pipe, current_model, current_model_path,
                   output, transfers, nreq>>

\* ------------------------------------------------------------ /generate
\* Variant of lines 152-157 without the check of the prompt (lines 156-157).
GenerateAnyPrompt(t, prompt) ==
    /\ Arrive(t)
    /\ IF pipe = NoPath
       THEN Reply(t, Error(400, "no_model_loaded"))
       ELSE Goto(t, "gen_run", [Loc0 EXCEPT !.op = "generate", !.prompt = prompt])
    /\ UNCHANGED globals

\* generate(), lines 152-157: first the check of pipe, then the check of the
\* prompt (a missing prompt is the empty string).
Generate(t, prompt) ==
    /\ Arrive(t)
    /\ IF pipe = NoPath
       THEN Reply(t, Error(400, "no_model_loaded"))
       ELSE IF prompt = ""
       THEN Reply(t, Error(400, "no_prompt"))
       ELSE Goto(t, "gen_run", [Loc0 EXCEPT !.op = "generate", !.prompt = prompt])
    /\ UNCHANGED globals

\* Line 160: result = pipe(prompt), with the pipe of this moment.
GenerateRun(t) ==
    /\ pc[t] = "gen_run"
    /\ Goto(t, "gen_save",
            [loc[t] EXCEPT !.image = [model |-> pipe, prompt |-> loc[t].prompt]])
    /\ UNCHANGED <<globals, nreq>>

\* Line 182: image.save('output.png')
GenerateSave(t) ==
    /\ pc[t] = "gen_save"
    /\ output' = loc[t].image
    /\ Goto(t, "gen_send", loc[t])
    /\ UNCHANGED <<MODEL_DIR, dirs, files, pipe, current_model,
                   current_model_path, transfers, nreq>>

\* Line 183: send_file('output.png') answers with what the file holds.
GenerateSend(t) ==
    /\ pc[t] = "gen_send"
    /\ Reply(t, [Resp0 EXCEPT !.status = 200, !.kind = "image", !.image = output])
    /\ UNCHANGED <<globals, nreq>>

\* -------------------------------------------------------------- the system
Next ==
    \E t \in Threads :
        \/ \E name \in Names \cup {None} : Select(t, name)
        \/ SelectExists(t)
        \/ \E path \in Paths \cup {NoPath}, label \in Labels \cup {None} :
              LoadFromPath(t, path, label)
        \/ LoadFromPathExists(t)
        \/ Load(t)
        \/ SetCurrentModel(t)
        \/ SetCurrentModelPath(t)
        \/ Models(t)
        \/ \E d \in Dirs \cup Uncreatable \cup {None} : SetModelDir(t, d)
        \/ SetModelDirMakedirs(t)
        \/ SetModelDirAssign(t)
        \/ \E url \in Urls \cup {None}, filename \in Names \cup {None},
              custom_dir \in ExplicitDirs \cup {None} :
              Download(t, url, filename, custom_dir)
        \/ DownloadExists(t)
        \/ DownloadGet(t)
        \/ DownloadOpen(t)
        \/ DownloadWrite(t)
        \/ \E prompt \in Prompts : Generate(t, prompt)
        \/ GenerateRun(t)
        \/ GenerateSave(t)
        \/ GenerateSend(t)

Spec == Init /\ [][Next]_vars

\* =================================================================== claims

\* The held pipeline is the one built from the recorded descriptor: the
\* recorded path is the path it was built from and the recorded name is that
\* file's name or the display label of a /load_from_path request.
HandleMatchesDescriptor ==
    /\ current_model_path = pipe
    /\ current_model \in {Basename(pipe)} \cup Labels

\* Thread t has been answered that /select loaded a model.
SelectSucceeded(t) ==
    /\ pc[t] = "idle"
    /\ resp[t].status = 200
    /\ resp[t].kind = "loaded"
    /\ resp[t].path = NoPath

\* C1: once two selectModel calls for different models have both been
\* answered with success, exactly one of the two models is active, the phase
\* is ready, and the handle held belongs to the recorded descriptor (name and
\* path).
C1_SelectsLeaveOneConsistentModel ==
    \A t, u \in Threads :
        (t # u /\ SelectSucceeded(t) /\ SelectSucceeded(u)
              /\ resp[t].model # resp[u].model)
        => /\ Phase = "ready"
           /\ pipe # NoPath
           /\ HandleMatchesDescriptor
           /\ current_model \in {resp[t].model, resp[u].model}

\* C2: at most one load is in flight at any time: no two threads are inside
\* lines 60-66 of load_model together.
C2_AtMostOneLoadInFlight ==
    Cardinality({t \in Threads : pc[t] \in LoadSteps}) <= 1

\* C3: the pipeline holds an engine handle if and only if its phase is ready.
C3_HandleIffReady ==
    (pipe # NoPath) <=> (Phase = "ready")

\* C4: when the engine rejects the artifact during selectModel or
\* loadFromPath, the call fails with LoadError and the pipeline is unloaded
\* afterwards: no handle and no descriptor, whatever was loaded before.
C4_RejectedLoadUnloads ==
    [][\A t \in Threads :
          (pc[t] = "load" /\ pc'[t] = "idle")
          => /\ resp'[t] = Error(400, "load_error")
             /\ pipe' = NoPath
             /\ current_model' = None
             /\ current_model_path' = NoPath]_vars

\* C5: when selectModel finds no file of the requested name in the model
\* directory it resolved the name against, it fails with HTTP 400
\* (ModelNotFoundError) and leaves the handle, the descriptor and the active
\* directory unchanged.
C5_SelectMissingFails ==
    [][\A t \in Threads :
          (pc[t] = "sel_exists" /\ pc'[t] # "sel_exists" /\ ~Exists(loc[t].path))
          => /\ pc'[t] = "idle"
             /\ resp'[t] = Error(400, "model_not_found")
             /\ UNCHANGED <<pipe, current_model, current_model_path, MODEL_DIR>>]_vars

\* C5 witness: a /select of a missing name has been answered with the error
\* while a model loaded earlier is still held.
C5_Witness ==
    \E t \in Threads :
        /\ pc[t] = "idle"
        /\ resp[t] = Error(400, "model_not_found")
        /\ pipe # NoPath
        /\ HandleMatchesDescriptor

\* C6: generate with a prompt fails with NoModelLoadedError whenever the
\* phase is not ready, and the engine is not invoked.
C6_GenerateFailsUnlessReady ==
    [][\A t \in Threads : \A prompt \in Prompts \ {""} :
          (Generate(t, prompt) /\ Phase # "ready")
          => /\ pc'[t] = "idle"
             /\ resp'[t] = Error(400, "no_model_loaded")]_vars

\* C7 as stated: generate with an empty prompt fails with InvalidPromptError
\* in every phase.
C7_EmptyPromptAlwaysInvalidPrompt ==
    [][\A t \in Threads :
          Generate(t, "") => resp'[t] = Error(400, "no_prompt")]_vars

\* C7 as amended: generate with an empty prompt always fails with HTTP 400 and
\* never reaches the engine; the error is InvalidPromptError when a handle is
\* held and NoModelLoadedError when none is held.
C7_EmptyPromptFails ==
    [][\A t \in Threads :
          Generate(t, "")
          => /\ pc'[t] = "idle"
             /\ resp'[t] = Error(400, IF pipe = NoPath THEN "no_model_loaded"
                                                      ELSE "no_prompt")
             /\ UNCHANGED globals]_vars

\* C7 witness: an empty prompt has been refused as such, with a model held.
C7_Witness ==
    \E t \in Threads :
        /\ pc[t] = "idle"
        /\ resp[t] = Error(400, "no_prompt")
        /\ pipe # NoPath

\* Thread u has been answered that /download put a file at path p.
FetchSucceeded(u, p) ==
    /\ pc[u] = "idle"
    /\ resp[u].status = 200
    /\ resp[u].kind = "downloaded"
    /\ resp[u].path = p

\* C8: a fetch of a path for which an earlier fetch has already returned
\* successfully returns the same path at its existence check, issues no HTTP
\* request and leaves every file as it is.
C8_SecondFetchIsNoOp ==
    [][\A t \in Threads :
          (/\ pc[t] = "dl_exists"
           /\ pc'[t] # "dl_exists"
           /\ \E u \in Threads : FetchSucceeded(u, loc[t].path))
          => /\ pc'[t] = "idle"
             /\ resp'[t].status = 200
             /\ resp'[t].kind = "downloaded"
             /\ resp'[t].path = loc[t].path
             /\ transfers' = transfers
             /\ files' = files]_vars

\* C8 witness: two requests were made, both fetches of the same path, both
\* answered with that path, and one HTTP request was issued in all.
C8_Witness ==
    \E t, u \in Threads : \E p \in Paths :
        /\ t # u
        /\ FetchSucceeded(t, p)
        /\ FetchSucceeded(u, p)
        /\ nreq = 2
        /\ transfers = 1

\* C9: a fetch that fails while writing leaves no file at its target path.
C9_FailedFetchLeavesNoFile ==
    [][\A t \in Threads :
          (pc[t] = "dl_write" /\ pc'[t] = "idle" /\ resp'[t].status # 200)
          => files'[loc[t].path] = Absent]_vars

\* C10: a fetch whose remote answers with a non-success status is answered
\* with an error and not with a path.
C10_BadStatusIsFetchError ==
    [][\A t \in Threads :
          (pc[t] = "dl_write" /\ pc'[t] = "idle" /\ loc[t].remote = "bad_status")
          => /\ resp'[t].status # 200
             /\ resp'[t].path = NoPath]_vars

\* C11: a fetch into an explicitly named directory that does not exist yet
\* creates the directory and goes on to write the file there.
C11_FetchCreatesDirectory ==
    [][\A t \in Threads :
          (/\ pc[t] = "dl_open"
           /\ pc'[t] # "dl_open"
           /\ loc[t].custom # None
           /\ loc[t].dir \notin dirs)
          => /\ loc[t].dir \in dirs'
             /\ pc'[t] = "dl_write"
             /\ files'[loc[t].path] # Absent]_vars

\* Thread t takes a step of set_model_dir(): its request arrives, or it runs
\* line 89 or lines 90-96.
SetModelDirStep(t) ==
    \/ pc[t] = "idle" /\ pc'[t] = "sd_makedirs"
    \/ pc[t] \in {"sd_makedirs", "sd_assign"} /\ pc'[t] # pc[t]

\* C12: no step of setDirectory changes the handle, the descriptor or any
\* file; a successful one sets the active directory, and a generate with a
\* prompt that arrives while a handle is held goes on to the engine.
C12_SetDirectoryKeepsPipeline ==
    [][\A t \in Threads :
          /\ SetModelDirStep(t)
             => UNCHANGED <<pipe, current_model, current_model_path, files, output>>
          /\ (pc[t] = "sd_assign" /\ pc'[t] = "idle")
             => /\ MODEL_DIR' = loc[t].dir
                /\ resp'[t].status = 200
          /\ (pc[t] = "idle" /\ pipe # NoPath /\ pc'[t] # "gen_run")
             => \A prompt \in Prompts \ {""} : ~Generate(t, prompt)]_vars

\* C12 witness: setDirectory has been answered with success and the active
\* directory is no longer the one the held model was loaded from.
C12_Witness ==
    \E t \in Threads :
        /\ pc[t] = "idle"
        /\ resp[t].status = 200
        /\ resp[t].kind = "updated"
        /\ resp[t].dir = MODEL_DIR
        /\ pipe # NoPath
        /\ HandleMatchesDescriptor
        /\ pipe.dir # MODEL_DIR

\* The files of directory d.
FilesIn(d) == {n \in Names : files[Join(d, n)] # Absent}

\* C13: setDirectory on a path that does not exist creates it, empty, and
\* makes it the active directory; listModels on an active directory without
\* model files answers with the empty set and no error, whatever the other
\* directories hold.
C13_NewDirectoryListsEmpty ==
    [][\A t \in Threads :
          /\ (/\ pc[t] = "sd_makedirs"
              /\ pc'[t] # "sd_makedirs"
              /\ loc[t].dir \in Dirs \ dirs)
             => /\ pc'[t] = "sd_assign"
                /\ loc[t].dir \in dirs'
                /\ {n \in Names : files'[Join(loc[t].dir, n)] # Absent} = {}
          /\ (pc[t] = "sd_assign" /\ pc'[t] # "sd_assign")
             => /\ MODEL_DIR' = loc[t].dir
                /\ MODEL_DIR' \in dirs'
          /\ (Models(t) /\ FilesIn(MODEL_DIR) = {})
             => /\ resp'[t].status = 200
                /\ resp'[t].models = {}
                /\ resp'[t].dir = MODEL_DIR]_vars

\* C13 witness: after setDirectory to the new directory B, listModels has
\* answered with the empty set although the previous directory holds a model.
C13_Witness ==
    \E t \in Threads :
        /\ pc[t] = "idle"
        /\ resp[t].kind = "models"
        /\ resp[t].models = {}
        /\ resp[t].dir = "B"
        /\ Exists(Join(StartDir, "a.safetensors"))
        /\ nreq = 2

\* C14: setDirectory with a path that cannot be created is answered with a
\* 400 error and leaves the active directory unchanged.
C14_UncreatableDirectoryIs400 ==
    [][\A t \in Threads :
          (/\ pc[t] = "sd_makedirs"
           /\ pc'[t] # "sd_makedirs"
           /\ loc[t].dir \in Uncreatable)
          => /\ pc'[t] = "idle"
             /\ resp'[t].status = 400
             /\ MODEL_DIR' = MODEL_DIR]_vars

\* C15: /load_from_path without a path, or with a path that does not exist,
\* is answered with a 400 error and leaves the handle and the descriptor
\* unchanged.
C15_BadPathIs400 ==
    [][\A t \in Threads :
          /\ (\E label \in Labels \cup {None} : LoadFromPath(t, NoPath, label))
             => /\ resp'[t].status = 400
                /\ UNCHANGED <<pipe, current_model, current_model_path>>
          /\ (/\ pc[t] = "lfp_exists"
              /\ pc'[t] # "lfp_exists"
              /\ ~Exists(loc[t].path))
             => /\ resp'[t] = Error(400, "path_not_found")
                /\ UNCHANGED <<pipe, current_model, current_model_path>>]_vars

\* C16: selectModel resolves the name against the registry: at its check the
\* call goes on to load exactly when listModels returns the name, and fails
\* with ModelNotFoundError otherwise.
C16_SelectResolvesAgainstRegistry ==
    [][\A t \in Threads :
          (pc[t] = "sel_exists" /\ pc'[t] # "sel_exists")
          => IF loc[t].name \in list_models
             THEN pc'[t] = "load"
             ELSE resp'[t] = Error(400, "model_not_found")]_vars

\* C17: in the scenario setDirectory, fetch of m.bin without an explicit
\* directory, listModels: once the directory set is active and the fetch has
\* answered with m.bin in it, listModels returns m.bin, the name the
\* scenario then selects and sees reported as current.
C17_FetchedModelIsListed ==
    [][\A t, u \in Threads :
          (/\ Models(t)
           /\ MODEL_DIR # StartDir
           /\ FetchSucceeded(u, Join(MODEL_DIR, "m.bin")))
          => "m.bin" \in resp'[t].models]_vars

\* C18: currentStatus called while the engine is building a pipeline does
\* not present a model as current: the snapshot names no current model and
\* no current path.
C18_StatusReportsLoading ==
    [][\A t, u \in Threads :
          (Models(t) /\ pc[u] = "load")
          => /\ resp'[t].model = None
             /\ resp'[t].path = NoPath]_vars

\* C19: while a load, the only one in flight, is building its pipeline no
\* handle is held: the handle held before was released when the load began.
C19_NoHandleDuringLoad ==
    \A t \in Threads :
        (pc[t] = "load" /\ \A u \in Threads \ {t} : pc[u] \notin LoadSteps)
        => pipe = NoPath

\* Thread t is inside a /select request.
InSelect(t) == loc[t].op = "select" /\ pc[t] \in {"sel_exists"} \cup LoadSteps

\* C20: a /select request resolves its path once, against the MODEL_DIR of
\* its arrival; whatever setDirectory does meanwhile, the request keeps that
\* path, loads the pipeline from it and records it as current_model_path.
C20_InFlightLoadKeepsItsPath ==
    [][\A t \in Threads :
          /\ \A name \in Names :
                Select(t, name) => loc'[t].path = Join(MODEL_DIR, name)
          /\ (InSelect(t) /\ pc'[t] # "idle") => loc'[t].path = loc[t].path
          /\ (InSelect(t) /\ pc[t] = "load" /\ pc'[t] = "set_name")
             => pipe' = loc[t].path
          /\ (InSelect(t) /\ pc[t] = "set_path" /\ pc'[t] = "idle")
             => /\ current_model_path' = loc[t].path
                /\ resp'[t].status = 200]_vars

\* C20 witness: a /select is about to record its path while setDirectory has
\* meanwhile made another directory active; the held pipeline is the one
\* built from the path the request resolved.
C20_Witness ==
    \E t \in Threads :
        /\ InSelect(t)
        /\ pc[t] = "set_path"
        /\ loc[t].path.dir # MODEL_DIR
        /\ pipe = loc[t].path

\* Thread t is inside a /generate request, past its checks.
InGenerate(t) == pc[t] \in {"gen_run", "gen_save", "gen_send"}

\* C21: when two generate requests run together against a ready pipeline,
\* the response of each carries the image the engine produced for that
\* request's own prompt, never the image produced for the other request.
C21_EachCallerGetsItsOwnImage ==
    [][\A t \in Threads :
          (/\ pc[t] = "gen_send"
           /\ pc'[t] = "idle"
           /\ Phase = "ready"
           /\ \E u \in Threads \ {t} : InGenerate(u))
          => /\ resp'[t].image = loc[t].image
             /\ resp'[t].image.prompt = loc[t].prompt]_vars

====
